---- MODULE Spec2Model ----
\* Model of app.py (Dristi-Saarathi): a Streamlit page that re-runs main() on
\* every user interaction and delegates OCR, scene description and speech
\* synthesis to three adapters.  Texts are sequences of single characters,
\* temporary file paths are <<"tmp", n>>, Python's None is the token None.
EXTENDS Integers, Sequences, FiniteSets, TLC

\* ---------------------------------------------------------------- bounds
MaxRuns == 2                          \* page runs explored
TmpNames == {<<"tmp", n>> : n \in 1..(MaxRuns + 1)}  \* names mkstemp may pick

\* ---------------------------------------------------------------- values
None == <<"None">>                    \* Python None (no text has a 4-letter character)
Whitespace == {" ", "\n"}             \* characters str.strip() removes
OcrTexts == {<<>>, <<" ", "\n">>, <<" ", "H", "I", "\n">>}   \* what the OCR engine may recognise
GenTexts == {<<>>, <<" ">>, <<"A", " ", "c", "a", "t">>}      \* what response.text may be
Sentinel == <<"N", "o", "D", "e", "s", "c">>   \* "No description generated."
AcceptedTypes == {"jpg", "jpeg", "png"}
FileTypes == AcceptedTypes \cup {"gif"}   \* what a user may try to upload
Buttons == {"none", "scene", "ocr", "tts"}  \* the widget whose click caused the run
OcrOutcomes == {"ok", "fail"}             \* pytesseract.image_to_string
GenOutcomes == {"ok", "model_fail", "generate_fail", "text_fail"}
TtsOutcomes == {"ok", "gtts_fail", "tmpfile_fail", "save_fail"}

\* a file the user selects in the browser: its extension and whether its
\* bytes are an image PIL can decode
UserFiles == {<<"file", ty, d>> : ty \in FileTypes, d \in BOOLEAN}
FileType(f) == f[2]
Decodable(f) == f[3]

\* ---------------------------------------------------------------- helpers
RECURSIVE lstrip(_)
lstrip(s) == IF s = <<>> THEN s
             ELSE IF Head(s) \in Whitespace THEN lstrip(Tail(s)) ELSE s

RECURSIVE rstrip(_)
rstrip(s) == IF s = <<>> THEN s
             ELSE IF s[Len(s)] \in Whitespace THEN rstrip(SubSeq(s, 1, Len(s) - 1)) ELSE s

\* str.strip()
strip_nothing(s) == s
strip(s) == rstrip(lstrip(s))

\* Python truthiness of a str-or-None value
Truthy(v) == v /= None /\ v /= <<>>

\* one rendered element of the page
W(kind, arg) == [w |-> kind, a |-> arg]

\* st.file_uploader(type=[...]): the widget only hands over files whose
\* extension is in the accepted list, otherwise the script sees None
file_uploader_any(sel) == sel
file_uploader(sel) ==
    IF sel /= None /\ FileType(sel) \in AcceptedTypes THEN sel ELSE None

\* ---------------------------------------------------------------- adapters
\* Each adapter is an operator from its arguments and the outcome of the
\* external call to a record: the value(s) returned, the st.error messages it
\* surfaced, whether an exception left the function, and the adapter calls
\* made (innermost first, in order of return).

\* the trace entry of one adapter call: its input text (arg), what the
\* external engine produced (out), the returned text (ret) and audio path
\* (path), the errors the function itself surfaced, whether it raised, and
\* whether the external service was invoked
Call(fn, ok, arg, out, ret, path, nerr, raised, svc) ==
    [fn |-> fn, ok |-> ok, arg |-> arg, out |-> out, ret |-> ret, path |-> path,
     nerr |-> nerr, raised |-> raised, svc |-> svc]

\* extract_text_from_image(image); oc/t: outcome and text of the engine
extract_text_from_image_raising(image, oc, t) ==
    LET r == IF oc = "ok" THEN t ELSE None
    IN [ret |-> r, msgs |-> <<>>, raised |-> oc /= "ok",
        calls |-> <<Call("extract_text_from_image", oc = "ok", None, r, r, None,
                         0, oc /= "ok", TRUE)>>]
extract_text_from_image(image, oc, t) ==
    LET r == IF oc = "ok" THEN t ELSE <<>>
        m == IF oc = "ok" THEN <<>> ELSE <<W("error", <<"Text extraction error">>)>>
    IN [ret |-> r, msgs |-> m, raised |-> FALSE,
        calls |-> <<Call("extract_text_from_image", oc = "ok", None,
                         IF oc = "ok" THEN t ELSE None, r, None, Len(m), FALSE,
                         TRUE)>>]

\* text_to_speech(text); toc: outcome of gTTS(...) / NamedTemporaryFile / save,
\* name: the fresh name mkstemp picks, fs: temporary files that exist
text_to_speech_cached(text, toc, name, fs) ==
    LET hit  == fs /= {}                       \* an earlier artifact is reused
        p    == IF hit THEN CHOOSE f \in fs : TRUE
                ELSE IF toc = "ok" THEN name ELSE None
        m    == IF hit \/ toc = "ok" THEN <<>>
                ELSE <<W("error", <<"Text-to-speech conversion error">>)>>
        made == ~hit /\ toc \in {"ok", "save_fail"}
    IN [ret |-> p, msgs |-> m, raised |-> FALSE,
        files |-> IF made THEN fs \cup {name} ELSE fs,
        calls |-> <<Call("text_to_speech", hit \/ toc = "ok", text, p, None, p,
                         Len(m), FALSE, made)>>]
text_to_speech(text, toc, name, fs) ==
    LET made == toc \in {"ok", "save_fail"}   \* NamedTemporaryFile(delete=False) ran
        p    == IF toc = "ok" THEN name ELSE None
        m    == IF toc = "ok" THEN <<>>
                ELSE <<W("error", <<"Text-to-speech conversion error">>)>>
    IN [ret |-> p, msgs |-> m, raised |-> FALSE,
        files |-> IF made THEN fs \cup {name} ELSE fs,
        calls |-> <<Call("text_to_speech", toc = "ok", text,
                         IF toc = "ok" THEN name ELSE None, None, p, Len(m),
                         FALSE, made)>>]

\* generate_scene_description(input_prompt, image_data); goc/out: outcome and
\* response.text of the model call, toc/name/fs: as for text_to_speech
gsd_failed(goc, out, fs) ==
    [ret |-> None, path |-> None,
     msgs |-> <<W("error", <<"Scene description generation error">>)>>,
     raised |-> FALSE, files |-> fs,
     calls |-> <<Call("generate_scene_description", goc = "ok", None,
                      IF goc = "ok" THEN out ELSE None, None, None, 1, FALSE,
                      TRUE)>>]
gsd_spoken(out, t) ==
    IF t.raised
    THEN [gsd_failed("ok", out, t.files) EXCEPT
            !.calls = t.calls \o gsd_failed("ok", out, t.files).calls]
    ELSE [ret |-> out, path |-> t.ret, msgs |-> t.msgs, raised |-> FALSE,
          files |-> t.files,
          calls |-> t.calls \o
                    <<Call("generate_scene_description", TRUE, None, out, out,
                           t.ret, 0, FALSE, TRUE)>>]
gsd_empty(out, fs) ==
    [ret |-> Sentinel, path |-> None, msgs |-> <<>>, raised |-> FALSE,
     files |-> fs,
     calls |-> <<Call("generate_scene_description", TRUE, None, out, Sentinel,
                      None, 0, FALSE, TRUE)>>]

\* the try block removed: a failed model call leaves the function
generate_scene_description_raising(input_prompt, image_data, goc, out, toc, name, fs) ==
    IF goc /= "ok"
    THEN [ret |-> None, path |-> None, msgs |-> <<>>, raised |-> TRUE, files |-> fs,
          calls |-> <<Call("generate_scene_description", FALSE, None, None, None,
                           None, 0, TRUE, TRUE)>>]
    ELSE IF Truthy(out) THEN gsd_spoken(out, text_to_speech(out, toc, name, fs))
    ELSE gsd_empty(out, fs)
\* "if output:" removed: an empty response is spoken and returned as it is
generate_scene_description_always_speaks(input_prompt, image_data, goc, out, toc, name, fs) ==
    IF goc /= "ok" THEN gsd_failed(goc, out, fs)
    ELSE gsd_spoken(out, text_to_speech(out, toc, name, fs))
\* the sentinel forgotten: an empty response is returned as it is
generate_scene_description_no_sentinel(input_prompt, image_data, goc, out, toc, name, fs) ==
    IF goc /= "ok" THEN gsd_failed(goc, out, fs)
    ELSE IF Truthy(out) THEN gsd_spoken(out, text_to_speech(out, toc, name, fs))
    ELSE [gsd_empty(out, fs) EXCEPT
            !.ret = out,
            !.calls = <<Call("generate_scene_description", TRUE, None, out, out,
                             None, 0, FALSE, TRUE)>>]
\* a failed synthesis treated as a failed description
generate_scene_description_discards(input_prompt, image_data, goc, out, toc, name, fs) ==
    LET t == text_to_speech(out, toc, name, fs)
    IN IF goc /= "ok" THEN gsd_failed(goc, out, fs)
       ELSE IF Truthy(out)
            THEN IF t.ret = None
                 THEN [gsd_failed("ok", out, t.files) EXCEPT
                         !.msgs = t.msgs \o @,
                         !.calls = t.calls \o @]
                 ELSE gsd_spoken(out, t)
       ELSE gsd_empty(out, fs)
generate_scene_description(input_prompt, image_data, goc, out, toc, name, fs) ==
    IF goc /= "ok" THEN gsd_failed(goc, out, fs)                  \* except clause
    ELSE IF Truthy(out)                                           \* if output:
         THEN gsd_spoken(out, text_to_speech(out, toc, name, fs))
    ELSE gsd_empty(out, fs)

\* input_image_setup(uploaded_file)
input_image_setup(uf) ==
    IF uf /= None
    THEN [ret |-> <<[mime_type |-> FileType(uf), data |-> "bytes"]>>, raised |-> FALSE,
          calls |-> <<Call("input_image_setup", TRUE, None, None, None, None, 0,
                           FALSE, FALSE)>>]
    ELSE [ret |-> None, raised |-> TRUE,
          calls |-> <<Call("input_image_setup", FALSE, None, None, None, None, 0,
                           TRUE, FALSE)>>]

\* open(path, "rb") succeeds on an existing file only; open(None) is a TypeError
can_open(path, fs) == path /= None /\ path \in fs

\* ---------------------------------------------------------------- state
VARIABLES
    widget_file,    \* what the user has selected in the upload widget (or None)
    clicked,        \* the button whose click caused the current run
    pc,             \* position of the current run of main()
    runs,           \* runs of main() started so far
    uploaded_file,  \* main: uploaded_file
    image,          \* main: image
    scene_button, ocr_button, tts_button,   \* main: the three button values
    image_data,     \* main: image_data
    display,        \* elements rendered by the current run, in order
    calls,          \* adapter calls made by the current run, in order of return
    unhandled,      \* an exception left main() in the current run
    files,          \* temporary files that exist
    tts_hist        \* every text_to_speech call since start-up, in order

vars == <<widget_file, clicked, pc, runs, uploaded_file, image, scene_button,
          ocr_button, tts_button, image_data, display, calls, unhandled, files,
          tts_hist>>

Init ==
    /\ widget_file = None
    /\ clicked = "none"
    /\ pc = "idle"
    /\ runs = 0
    /\ uploaded_file = None
    /\ image = None
    /\ scene_button = FALSE /\ ocr_button = FALSE /\ tts_button = FALSE
    /\ image_data = None
    /\ display = <<>>
    /\ calls = <<>>
    /\ unhandled = FALSE
    /\ files = {}
    /\ tts_hist = <<>>

\* the except clause of main's try block (lines 189-190)
Unexpected == W("error", <<"An unexpected error occurred">>)

\* ---------------------------------------------------------------- main()
\* A user interaction (selecting or removing a file, clicking a button)
\* makes Streamlit run main() again from the top; at most one button reads
\* True in a run, and the page is rebuilt from nothing.
StartRun(sel, b) ==
    /\ pc = "idle"
    /\ runs < MaxRuns
    /\ widget_file' = sel
    /\ clicked' = b
    /\ runs' = runs + 1
    /\ pc' = "upload"
    /\ uploaded_file' = None
    /\ image' = None
    /\ scene_button' = FALSE /\ ocr_button' = FALSE /\ tts_button' = FALSE
    /\ image_data' = None
    /\ display' = <<>>
    /\ calls' = <<>>
    /\ unhandled' = FALSE
    /\ UNCHANGED <<files, tts_hist>>

\* lines 125-131: page set-up, the upload widget and "if uploaded_file:"
Uploader ==
    /\ pc = "upload"
    /\ uploaded_file' = file_uploader(widget_file)
    /\ pc' = IF uploaded_file' /= None THEN "decode" ELSE "footer"
    /\ UNCHANGED <<widget_file, clicked, runs, image, scene_button, ocr_button,
                   tts_button, image_data, display, calls, unhandled, files,
                   tts_hist>>

\* lines 132-133: Image.open and st.image, outside every try block
Decode ==
    /\ pc = "decode"
    /\ IF Decodable(uploaded_file)
       THEN /\ image' = <<"bitmap">>
            /\ display' = Append(display, W("image", None))
            /\ pc' = "features"
            /\ UNCHANGED unhandled
       ELSE /\ unhandled' = TRUE
            /\ pc' = "idle"
            /\ UNCHANGED <<image, display>>
    /\ UNCHANGED <<widget_file, clicked, runs, uploaded_file, scene_button,
                   ocr_button, tts_button, image_data, calls, files, tts_hist>>

\* lines 135-151: the three buttons, the prompt and input_image_setup
Features ==
    /\ pc = "features"
    /\ scene_button' = (clicked = "scene")
    /\ ocr_button' = (clicked = "ocr")
    /\ tts_button' = (clicked = "tts")
    /\ LET r == input_image_setup(uploaded_file)
       IN /\ calls' = calls \o r.calls
          /\ image_data' = r.ret
          /\ IF r.raised
             THEN /\ display' = display \o <<W("header", <<"Features">>), Unexpected>>
                  /\ pc' = "footer"
             ELSE /\ display' = Append(display, W("header", <<"Features">>))
                  /\ pc' = "scene"
    /\ UNCHANGED <<widget_file, clicked, runs, uploaded_file, image, unhandled,
                   files, tts_hist>>

\* lines 153-165: the Describe Image handler
SceneStep ==
    /\ pc = "scene"
    /\ IF scene_button
       THEN \E goc \in GenOutcomes, out \in GenTexts, toc \in TtsOutcomes,
               name \in TmpNames \ files :
            LET r == generate_scene_description("prompt", image_data, goc, out,
                                                toc, name, files)
                shown == display \o r.msgs
                body == <<W("header", <<"Scene Description">>), W("write", r.ret)>>
            IN /\ calls' = calls \o r.calls
               /\ files' = r.files
               /\ tts_hist' = tts_hist \o
                              SelectSeq(r.calls, LAMBDA c : c.fn = "text_to_speech")
               /\ IF r.raised
                  THEN /\ display' = Append(shown, Unexpected)
                       /\ pc' = "footer"
                  ELSE IF Truthy(r.path)
                  THEN IF can_open(r.path, r.files)
                       THEN /\ display' = shown \o body \o
                                   <<W("audio", r.path), W("download", r.path)>>
                            /\ pc' = "ocr"
                       ELSE /\ display' = shown \o body \o
                                   <<W("audio", r.path), Unexpected>>
                            /\ pc' = "footer"
                  ELSE /\ display' = shown \o body
                       /\ pc' = "ocr"
       ELSE /\ pc' = "ocr"
            /\ UNCHANGED <<display, calls, files, tts_hist>>
    /\ UNCHANGED <<widget_file, clicked, runs, uploaded_file, image, scene_button,
                   ocr_button, tts_button, image_data, unhandled>>

\* lines 167-171: the Extract Text handler
OcrStep ==
    /\ pc = "ocr"
    /\ IF ocr_button
       THEN \E oc \in OcrOutcomes, t \in OcrTexts :
            LET r == extract_text_from_image(image, oc, t)
            IN /\ calls' = calls \o r.calls
               /\ IF r.raised
                  THEN /\ display' = (display \o r.msgs) \o <<Unexpected>>
                       /\ pc' = "footer"
                  ELSE /\ display' = (display \o r.msgs) \o
                              <<W("header", <<"Extracted Text">>), W("text_area", r.ret)>>
                       /\ pc' = "tts"
       ELSE /\ pc' = "tts"
            /\ UNCHANGED <<display, calls>>
    /\ UNCHANGED <<widget_file, clicked, runs, uploaded_file, image, scene_button,
                   ocr_button, tts_button, image_data, unhandled, files, tts_hist>>

\* lines 173-187: the Text-to-Speech handler
TtsStep ==
    /\ pc = "tts"
    /\ IF tts_button
       THEN \E oc \in OcrOutcomes, t \in OcrTexts, toc \in TtsOutcomes,
               name \in TmpNames \ files :
            LET o == extract_text_from_image(image, oc, t)
                s == text_to_speech(o.ret, toc, name, files)
                shown == display \o o.msgs
            IN IF o.raised
               THEN /\ calls' = calls \o o.calls
                    /\ display' = Append(shown, Unexpected)
                    /\ pc' = "footer"
                    /\ UNCHANGED <<files, tts_hist>>
               ELSE IF strip(o.ret) /= <<>>
               THEN /\ calls' = calls \o o.calls \o s.calls
                    /\ files' = s.files
                    /\ tts_hist' = tts_hist \o s.calls
                    /\ pc' = "footer"
                    /\ IF s.raised
                       THEN display' = (shown \o s.msgs) \o <<Unexpected>>
                       ELSE IF can_open(s.ret, s.files)
                       THEN display' = (shown \o s.msgs) \o
                                <<W("success", <<"Conversion Completed!">>),
                                  W("audio", s.ret), W("download", s.ret)>>
                       ELSE display' = (shown \o s.msgs) \o
                                <<W("success", <<"Conversion Completed!">>),
                                  W("audio", s.ret), Unexpected>>
               ELSE /\ calls' = calls \o o.calls
                    /\ display' = Append(shown, W("warning", <<"No text found to convert.">>))
                    /\ pc' = "footer"
                    /\ UNCHANGED <<files, tts_hist>>
       ELSE /\ pc' = "footer"
            /\ UNCHANGED <<display, calls, files, tts_hist>>
    /\ UNCHANGED <<widget_file, clicked, runs, uploaded_file, image, scene_button,
                   ocr_button, tts_button, image_data, unhandled>>

\* lines 192-200: the footer, after which the run is over
Footer ==
    /\ pc = "footer"
    /\ display' = Append(display, W("footer", None))
    /\ pc' = "idle"
    /\ UNCHANGED <<widget_file, clicked, runs, uploaded_file, image, scene_button,
                   ocr_button, tts_button, image_data, calls, unhandled, files,
                   tts_hist>>

Next ==
    \/ \E sel \in UserFiles \cup {None}, b \in Buttons : StartRun(sel, b)
    \/ Uploader
    \/ Decode
    \/ Features
    \/ SceneStep
    \/ OcrStep
    \/ TtsStep
    \/ Footer

Spec == Init /\ [][Next]_vars

\* ---------------------------------------------------------------- properties
Idx(cs, f) == {i \in DOMAIN cs : cs[i].fn = f}
Count(cs, f) == Cardinality(Idx(cs, f))
Shown(kind) == {i \in DOMAIN display : display[i].w = kind}
ShownMsg(kind, msg) == {i \in Shown(kind) : display[i].a = <<msg>>}
HasNonWhitespace(t) == \E i \in DOMAIN t : t[i] \notin Whitespace
Accepted(sel) == sel /= None /\ FileType(sel) \in AcceptedTypes
RunOver == pc = "idle" /\ runs > 0
Pressed == scene_button \/ ocr_button \/ tts_button
OCR == "extract_text_from_image"
TTS == "text_to_speech"
GSD == "generate_scene_description"

\* C1: a run in which no file of an accepted type (jpg, jpeg, png) is
\* uploaded calls no adapter, creates no audio file and renders no result
\* panel (nothing but the footer), whatever button was clicked.
C1_NoAdapterWithoutAcceptedFile ==
    [][ ~Accepted(widget_file') =>
          /\ calls' = <<>>
          /\ files' = files
          /\ tts_hist' = tts_hist
          /\ \A i \in DOMAIN display' : display'[i].w = "footer" ]_vars

C1_Witness ==
    /\ RunOver
    /\ widget_file \in UserFiles /\ FileType(widget_file) = "gif"
    /\ clicked = "tts"
    /\ files /= {}
    /\ display = <<W("footer", None)>>

\* C2: when the Text-to-Speech handler gets an empty or whitespace-only
\* string from the OCR adapter, text_to_speech is not called, no temporary
\* file is created and the "No text found to convert." warning is shown; and
\* text_to_speech is called on this path only with an OCR text that has a
\* non-whitespace character.
C2_BlankTextNotSpoken ==
    [][ (pc = "tts" /\ tts_button /\ pc' /= "tts") =>
          /\ Idx(calls', OCR) /= {}
          /\ (\A i \in Idx(calls', OCR) : ~HasNonWhitespace(calls'[i].ret)) =>
                /\ Idx(calls', TTS) = {}
                /\ files' = files
                /\ tts_hist' = tts_hist
                /\ \E i \in DOMAIN display' :
                      display'[i] = W("warning", <<"No text found to convert.">>)
          /\ \A j \in Idx(calls', TTS) :
                \E i \in Idx(calls', OCR) :
                    /\ i < j
                    /\ HasNonWhitespace(calls'[i].ret)
                    /\ calls'[j].arg = calls'[i].ret ]_vars

C2_Witness ==
    /\ RunOver /\ tts_button
    /\ \E i \in Idx(calls, OCR) :
          calls[i].ok /\ calls[i].ret /= <<>> /\ ~HasNonWhitespace(calls[i].ret)
    /\ ShownMsg("warning", "No text found to convert.") /= {}
    /\ files /= {}

\* C3: a generate_scene_description call whose model call failed returns a
\* null description and a null audio path, surfaces exactly one error, does
\* not call text_to_speech and does not raise.
C3_GenerationFailureContained ==
    \A i \in Idx(calls, GSD) :
        ~calls[i].ok =>
            /\ calls[i].ret = None
            /\ calls[i].path = None
            /\ ~calls[i].raised
            /\ Idx(calls, TTS) = {}
            /\ Cardinality(Shown("error")) = 1
            /\ ShownMsg("error", "Scene description generation error") /= {}
            /\ ~unhandled

C3_Witness ==
    /\ RunOver
    /\ \E i \in Idx(calls, GSD) : ~calls[i].ok
    /\ \E i \in Shown("write") : display[i].a = None
    /\ Shown("footer") /= {}

\* C4 (as claimed): no exception leaves main(), and a finished run has
\* rendered the footer.
C4_NoUnhandledFault ==
    /\ ~unhandled
    /\ RunOver => (display /= <<>> /\ display[Len(display)].w = "footer")

\* C5 (as claimed): a finished run in which a button was pressed made
\* exactly one call to an external-service adapter.
C5_ExactlyOneAdapterCall ==
    (RunOver /\ Pressed) => Count(calls, OCR) + Count(calls, GSD) + Count(calls, TTS) = 1

\* C5 (amended): a finished run in which a button was pressed made one or
\* two adapter calls: Extract Text one OCR call; Describe Image one
\* generation call, and one speech synthesis call exactly when the model
\* returned a non-empty text; Text-to-Speech one OCR call, and one speech
\* synthesis call exactly when the OCR text has a non-whitespace character.
C5_OneOrTwoAdapterCalls ==
    (RunOver /\ Pressed) =>
        /\ ocr_button =>
              Count(calls, OCR) = 1 /\ Count(calls, GSD) = 0 /\ Count(calls, TTS) = 0
        /\ scene_button =>
              /\ Count(calls, GSD) = 1 /\ Count(calls, OCR) = 0
              /\ \A i \in Idx(calls, GSD) :
                    Count(calls, TTS) =
                        IF calls[i].ok /\ calls[i].out /= <<>> THEN 1 ELSE 0
        /\ tts_button =>
              /\ Count(calls, OCR) = 1 /\ Count(calls, GSD) = 0
              /\ \A i \in Idx(calls, OCR) :
                    Count(calls, TTS) = IF HasNonWhitespace(calls[i].ret) THEN 1 ELSE 0

C5_Witness ==
    /\ RunOver /\ scene_button
    /\ Count(calls, GSD) = 1 /\ Count(calls, TTS) = 1

\* C6: every text_to_speech call that returns a path has invoked the speech
\* service and returns a file that did not exist before the call, exists
\* after it and was returned by no earlier call; no temporary file is ever
\* removed.
C6_NoCaching ==
    [][ /\ files \subseteq files'
        /\ \A i \in (Len(tts_hist) + 1)..Len(tts_hist') :
              tts_hist'[i].path /= None =>
                  /\ tts_hist'[i].svc
                  /\ tts_hist'[i].path \notin files
                  /\ tts_hist'[i].path \in files'
                  /\ \A j \in 1..Len(tts_hist) :
                        tts_hist[j].path /= tts_hist'[i].path ]_vars

C6_Witness ==
    \E i, j \in DOMAIN tts_hist :
        /\ i < j
        /\ tts_hist[i].arg = tts_hist[j].arg
        /\ tts_hist[i].path /= None /\ tts_hist[j].path /= None
        /\ tts_hist[i].path /= tts_hist[j].path
        /\ {tts_hist[i].path, tts_hist[j].path} \subseteq files

\* C7: a generate_scene_description call whose model call succeeded with an
\* empty text returns the sentinel and a null audio path without calling
\* text_to_speech; with a non-empty text it returns exactly that text.
C7_SentinelOnEmptyResponse ==
    \A i \in Idx(calls, GSD) :
        calls[i].ok =>
            IF calls[i].out = <<>>
            THEN /\ calls[i].ret = Sentinel
                 /\ calls[i].path = None
                 /\ Idx(calls, TTS) = {}
            ELSE calls[i].ret = calls[i].out

C7_Witness ==
    /\ RunOver
    /\ \E i \in Idx(calls, GSD) : calls[i].ok /\ calls[i].out = <<>>
    /\ \E i \in Shown("write") : display[i].a = Sentinel

\* C8: extract_text_from_image and text_to_speech never raise; on a failure
\* of the engine they return "" and a null path, each with exactly one error
\* surfaced on the page; on success they return the recognised text and the
\* path of the written file.
C8_AdaptersContainFailures ==
    /\ \A i \in Idx(calls, OCR) :
          /\ ~calls[i].raised
          /\ calls[i].ok => (calls[i].ret = calls[i].out /\ calls[i].nerr = 0)
          /\ ~calls[i].ok => (calls[i].ret = <<>> /\ calls[i].nerr = 1)
    /\ \A i \in DOMAIN tts_hist :
          /\ ~tts_hist[i].raised
          /\ tts_hist[i].ok =>
                /\ tts_hist[i].path /= None
                /\ tts_hist[i].path = tts_hist[i].out
                /\ tts_hist[i].path \in files
                /\ tts_hist[i].nerr = 0
          /\ ~tts_hist[i].ok => (tts_hist[i].path = None /\ tts_hist[i].nerr = 1)
    /\ Cardinality(ShownMsg("error", "Text extraction error"))
          = Cardinality({i \in Idx(calls, OCR) : ~calls[i].ok})
    /\ Cardinality(ShownMsg("error", "Text-to-speech conversion error"))
          = Cardinality({i \in Idx(calls, TTS) : ~calls[i].ok})

C8_Witness ==
    /\ RunOver
    /\ \E i \in DOMAIN tts_hist : ~tts_hist[i].ok
    /\ \E i \in Idx(calls, OCR) : ~calls[i].ok
    /\ ShownMsg("error", "Text extraction error") /= {}

\* C9 (as claimed): the success message, the audio player and the download
\* button are rendered only for a non-null audio path, and no null path is
\* opened.
C9_AudioOnlyWithPath ==
    /\ \A i \in Shown("audio") \cup Shown("download") : display[i].a /= None
    /\ Shown("success") /= {} => \E j \in Idx(calls, TTS) : calls[j].path /= None
    /\ ShownMsg("error", "An unexpected error occurred") = {}

\* C10: generate_scene_description keeps the description when only the
\* speech synthesis failed (main then shows it without an audio player); a
\* non-null audio path comes with the model's text as description, and a null
\* description only with a failed model call.
C10_DescriptionKeptOnSpeechFailure ==
    \A i \in Idx(calls, GSD) :
        /\ calls[i].path /= None =>
              (calls[i].ok /\ calls[i].ret /= None /\ calls[i].ret = calls[i].out)
        /\ calls[i].ret = None => ~calls[i].ok
        /\ (calls[i].ok /\ calls[i].out /= <<>>
              /\ \E j \in Idx(calls, TTS) : ~calls[j].ok) =>
              /\ calls[i].ret = calls[i].out
              /\ calls[i].path = None
              /\ \E k \in Shown("write") : display[k].a = calls[i].out
              /\ Shown("audio") = {}

C10_Witness ==
    /\ RunOver
    /\ \E i \in Idx(calls, GSD) :
          calls[i].ok /\ calls[i].out /= <<>> /\ calls[i].path = None
    /\ \E j \in Idx(calls, TTS) : ~calls[j].ok
    /\ Shown("write") /= {} /\ Shown("audio") = {} /\ Shown("footer") /= {}
====
